---- MODULE Spec2Model ----
(***************************************************************************)
(* Model of the attachment retrieval engine of Email-Attachments-Fetcher:  *)
(* EmailAttachmentDownloader (src/email_downloader.py) and the range       *)
(* configuration it is driven by (src/main.py, src/email_config.py).       *)
(*                                                                         *)
(* Strings are sequences of one-character strings.  Calendar dates are     *)
(* records [y, m, d]; a configured date string YYYYMMDD is the integer     *)
(* with those digits.  A path under download_path is the file name.        *)
(***************************************************************************)
EXTENDS Integers, Sequences, FiniteSets, TLC

----------------------------------------------------------------------------
(* Bounds of the model *)

MaxMsgs == 3
MaxFaults == 1
MaxDay == 3
MaxBatch == 2
MaxCount == 2
MaxNameLen == 2
MaxSlack == 1
MaxParts == 2
MaxSegments == 2
MaxCalls == 4

----------------------------------------------------------------------------
(* Python list primitives used by the code *)

Min(a, b) == IF a < b THEN a ELSE b

Max(a, b) == IF a > b THEN a ELSE b

\* list.reverse()
Reverse(s) == [k \in 1..Len(s) |-> s[Len(s) + 1 - k]]

\* s[:n], n of either sign
SliceTo(s, n) ==
    IF n >= 0 THEN SubSeq(s, 1, Min(n, Len(s)))
    ELSE SubSeq(s, 1, Max(0, Len(s) + n))

\* x in range(0, stop, step), for x a multiple of step; step # 0
InRange(x, stop, step) == IF step > 0 THEN x < stop ELSE x > stop

\* x in list
Contains(s, x) == \E k \in 1..Len(s) : s[k] = x

\* ceil(a / b), b >= 1
CeilDiv(a, b) == (a + b - 1) \div b

RECURSIVE Flatten(_)
Flatten(ss) == IF ss = <<>> THEN <<>> ELSE Head(ss) \o Flatten(Tail(ss))

----------------------------------------------------------------------------
(* Strings *)

InvalidChars == {"<", ">", ":", "\"", "/", "\\", "|", "?", "*"}

WhitespaceChars == {" ", "\t", "\n", "\r"}

UnnamedFile == <<"u", "n", "n", "a", "m", "e", "d", "_", "f", "i", "l", "e">>

MaxFilenameLen == 200

\* str.lower(), on the alphabet of the model
LowerChar(c) ==
    CASE c = "A" -> "a" [] c = "B" -> "b" [] c = "C" -> "c"
      [] c = "P" -> "p" [] c = "X" -> "x" [] OTHER -> c

Lower(s) == [k \in 1..Len(s) |-> LowerChar(s[k])]

\* str.strip(chars)
RECURSIVE StripLeft(_, _)
StripLeft(s, chars) ==
    IF s # <<>> /\ Head(s) \in chars THEN StripLeft(Tail(s), chars) ELSE s

RECURSIVE StripRight(_, _)
StripRight(s, chars) ==
    IF s # <<>> /\ s[Len(s)] \in chars
    THEN StripRight(SubSeq(s, 1, Len(s) - 1), chars) ELSE s

Strip(s, chars) == StripRight(StripLeft(s, chars), chars)

\* str.rfind(c) as a 1-based index, 0 when absent
LastIndexOf(s, c) ==
    LET hits == {k \in 1..Len(s) : s[k] = c}
    IN  IF hits = {} THEN 0 ELSE CHOOSE k \in hits : \A j \in hits : j <= k

\* os.path.splitext (posixpath): <<root, ext>>
Splitext(p) ==
    LET sepIndex == LastIndexOf(p, "/")
        dotIndex == LastIndexOf(p, ".")
        named == \E k \in (sepIndex + 1)..(dotIndex - 1) : p[k] # "."
    IN  IF dotIndex > sepIndex /\ named
        THEN <<SubSeq(p, 1, dotIndex - 1), SubSeq(p, dotIndex, Len(p))>>
        ELSE <<p, <<>>>>

\* _decode_filename on a header value that carries no encoded-word
DecodeFilename(filename) ==
    IF filename = <<>> THEN <<>> ELSE Strip(filename, WhitespaceChars)

CreateSafeFilenameNoFallback(filename) ==
    IF filename = <<>> THEN UnnamedFile
    ELSE LET replaced == [k \in 1..Len(filename) |->
                            IF filename[k] \in InvalidChars THEN "_" ELSE filename[k]]
             stripped == Strip(replaced, {" ", "."})
             parts == Splitext(stripped)
         IN  IF Len(stripped) > MaxFilenameLen
             THEN SliceTo(parts[1], MaxFilenameLen - Len(parts[2])) \o parts[2]
             ELSE stripped

\* _create_safe_filename
CreateSafeFilename(filename) ==
    IF filename = <<>> THEN UnnamedFile
    ELSE LET replaced == [k \in 1..Len(filename) |->
                            IF filename[k] \in InvalidChars THEN "_" ELSE filename[k]]
             stripped == Strip(replaced, {" ", "."})
             parts == Splitext(stripped)
             cut == IF Len(stripped) > MaxFilenameLen
                    THEN SliceTo(parts[1], MaxFilenameLen - Len(parts[2])) \o parts[2]
                    ELSE stripped
         IN  IF cut = <<>> THEN UnnamedFile ELSE cut

----------------------------------------------------------------------------
(* Calendar dates *)

IsLeap(y) == (y % 4 = 0 /\ y % 100 # 0) \/ y % 400 = 0

DaysInMonth(y, m) ==
    IF m = 2 THEN (IF IsLeap(y) THEN 29 ELSE 28)
    ELSE IF m \in {4, 6, 9, 11} THEN 30 ELSE 31

ValidDate(r) ==
    /\ r.y \in 1..9999
    /\ r.m \in 1..12
    /\ r.d \in 1..DaysInMonth(r.y, r.m)

NextDay(r) ==
    IF r.d < DaysInMonth(r.y, r.m) THEN [r EXCEPT !.d = r.d + 1]
    ELSE IF r.m < 12 THEN [y |-> r.y, m |-> r.m + 1, d |-> 1]
    ELSE [y |-> r.y + 1, m |-> 1, d |-> 1]

PrevDay(r) ==
    IF r.d > 1 THEN [r EXCEPT !.d = r.d - 1]
    ELSE IF r.m > 1 THEN [y |-> r.y, m |-> r.m - 1, d |-> DaysInMonth(r.y, r.m - 1)]
    ELSE [y |-> r.y - 1, m |-> 12, d |-> 31]

\* date + timedelta(days = n), n of either sign
RECURSIVE AddDays(_, _)
AddDays(r, n) ==
    IF n = 0 THEN r
    ELSE IF n > 0 THEN AddDays(NextDay(r), n - 1)
    ELSE AddDays(PrevDay(r), n + 1)

DateLess(a, b) ==
    \/ a.y < b.y
    \/ a.y = b.y /\ a.m < b.m
    \/ a.y = b.y /\ a.m = b.m /\ a.d < b.d

DateLeq(a, b) == a = b \/ DateLess(a, b)

MonthTokens ==
    <<"Jan", "Feb", "Mar", "Apr", "May", "Jun",
      "Jul", "Aug", "Sep", "Oct", "Nov", "Dec">>

\* strftime('%d-%b-%Y'): the date literal DD-Mon-YYYY as its three fields
FormatImapDate(r) == [dd |-> r.d, mon |-> MonthTokens[r.m], yyyy |-> r.y]

\* datetime.strptime(s, '%Y%m%d') on an eight-digit string
ParseYmd(n) == [y |-> n \div 10000, m |-> (n \div 100) % 100, d |-> n % 100]

\* _convert_date_to_imap_format: the literal, or the input itself when it is no date
ConvertDateToImapFormat(n) ==
    IF ValidDate(ParseYmd(n)) THEN FormatImapDate(ParseYmd(n)) ELSE [raw |-> n]

\* the eight-digit string of a date
Ymd(r) == r.y * 10000 + r.m * 100 + r.d

\* the server's reading of a date literal
ReadImapDate(lit) ==
    [y |-> lit.yyyy,
     m |-> CHOOSE k \in 1..12 : MonthTokens[k] = lit.mon,
     d |-> lit.dd]

----------------------------------------------------------------------------
(* The mailbox, the download directory and the configured search range *)

BaseDate == [y |-> 2024, m |-> 1, d |-> 31]

\* the k-th day of the model's calendar; the last one is the day of the run
DateOf(k) == AddDays(BaseDate, k - 1)

Dates == {DateOf(k) : k \in 1..MaxDay}

Today == DateOf(MaxDay)

NoFilename == <<>>

Part(maintype, disposition, filename, payload) ==
    [maintype |-> maintype, disposition |-> disposition,
     filename |-> filename, payload |-> payload]

\* email_message.walk() of the messages of the model: the root part first
PartsA ==
    <<Part("multipart", "none", NoFilename, ""),
      Part("application", "attachment", <<"a", ".", "x">>, "a1"),
      Part("application", "attachment", <<"c", ".", "p">>, "c2")>>

PartsB ==
    <<Part("application", "attachment", <<"a", ".", "x">>, "a3"),
      Part("application", "attachment", <<" ", "b", ":", "p", ".", "X">>, "b4")>>

PartLists == {PartsA, PartsB}

\* mailboxes: message k has ID k and was received on day k of the calendar,
\* the messages after the calendar's last day on that day too
Mailboxes ==
    UNION {{[k \in 1..n |-> [date |-> DateOf(Min(k, MaxDay)), parts |-> pl[k]]] :
                pl \in [1..n -> PartLists]} : n \in 0..MaxMsgs}

\* bytes of a file left behind by a write that failed part-way
Truncated == "truncated"

\* bytes of a file that was in download_path before the first run
Older == "older"

NoFiles == [p \in {} |-> Older]

Disks ==
    {[dir |-> FALSE, files |-> NoFiles],
     [dir |-> TRUE, files |-> [p \in {<<"a", ".", "x">>} |-> Older]]}

DefaultCountLimit == 100
DefaultRecentDays == 7
DefaultStartDate == 20250615
DefaultEndDate == 20250630

BatchSizes == -1..MaxBatch

\* the batch size configured along a date range, which no code reads
DateRangeBatchSizes == {1}

CountLimits == -1..MaxCount

RecentDays == -1..MaxDay

DateStrings == {Ymd(r) : r \in Dates}

\* a Python value that is None or a list: what a call returns (None by a
\* bare return), and what a caller passes for file_types
None == [value |-> "None"]

List(paths) == [value |-> "list", list |-> paths]

\* EMAIL_SETTINGS["file_types"]: a list of lower-case extensions
FileTypeLists == {List(<<<<".", "x">>>>)}

SearchRange(type, start, end, count, days, batch) ==
    [type |-> type, start_date |-> start, end_date |-> end,
     count_limit |-> count, recent_days |-> days, batch_size |-> batch]

\* EMAIL_SETTINGS["search_range"] as configure_search_range leaves it: the
\* entries the chosen type does not set keep their values of email_config.py
SearchRanges ==
    {SearchRange("all", DefaultStartDate, DefaultEndDate, DefaultCountLimit,
                 DefaultRecentDays, b) : b \in BatchSizes}
    \cup {SearchRange("date_range", s, e, DefaultCountLimit, DefaultRecentDays, b) :
            s \in DateStrings, e \in DateStrings, b \in DateRangeBatchSizes}
    \cup {SearchRange("count_limit", DefaultStartDate, DefaultEndDate, n,
                      DefaultRecentDays, b) : n \in CountLimits, b \in BatchSizes}
    \cup {SearchRange("recent_days", DefaultStartDate, DefaultEndDate,
                      DefaultCountLimit, n, b) : n \in RecentDays, b \in BatchSizes}

----------------------------------------------------------------------------
(* State *)

VARIABLES
    mailbox,           \* the folder on the server: message k has ID k
    files,             \* download_path: file name -> bytes
    dir,               \* download_path exists
    search_range,      \* EMAIL_SETTINGS["search_range"]
    file_types,        \* EMAIL_SETTINGS["file_types"]
    pc,                \* position of the download call
    exit,              \* the return statement the last call left by
    again,             \* the call is a repetition of the call before it
    message_list,      \* IDs to process, in processing order
    batch_start,       \* loop variable of the batch loop (0-based)
    batch_end,         \* end of the current batch
    i,                 \* position in message_list of the current message
    part_i,            \* position in walk() of the current part
    downloaded_files,  \* the list the call builds
    ret,               \* value returned by the last call
    prev_ret,          \* value returned by the call before it
    fetched,           \* IDs a fetch was issued for, in order (this call)
    fetch_failed,      \* IDs whose fetch failed (this call)
    processed,         \* <<ID, part position>> the part loop has handled (this call)
    write_failed,      \* <<ID, part position>> whose write failed (this call)
    writes,            \* file names written, in order (this call)
    batches,           \* batch_messages of every batch started (this call)
    failed,            \* commands the server failed for the whole call: select, search
    faults,            \* failures injected so far
    raw_filename,      \* a string given to _create_safe_filename
    safe_filename,     \* the string it returned
    mime_part,         \* a part given to the tests of the part loop
    captured,          \* the part passed them: it is saved or recorded
    runs,              \* two calls at once on one download_path: each one's state
    written,           \* the writes of the two calls, in order
    header,            \* a header value given to _decode_filename
    decoded,           \* what the call came to: a string, or an exception
    mail,              \* self.mail of the downloader at hand, and its session
    connected,         \* what the last connect() returned
    sessions,          \* the sessions opened by a successful connect(): logouts
    sent,              \* the commands download calls have sent to the server
    flow,              \* position of download_attachments_from_email
    calls              \* the methods of the downloader called so far

ctl == <<pc, exit, again, message_list, batch_start, batch_end, i, part_i,
         downloaded_files, ret, prev_ret>>

hist == <<fetched, fetch_failed, processed, write_failed, writes, batches,
          failed, faults>>

\* the variables of the two calls at once, and of _decode_filename on its own
race_vars == <<runs, written>>

decode_vars == <<header, decoded>>

\* the variables of the sessions of a downloader
session_vars == <<mail, connected, sessions, sent, flow, calls>>

env == <<mailbox, search_range, file_types, raw_filename, safe_filename,
        mime_part, captured, race_vars, decode_vars, session_vars>>

\* the variables of a download call but its position
call_vars == <<mailbox, files, dir, search_range, file_types, exit, again,
               message_list, batch_start, batch_end, i, part_i,
               downloaded_files, ret, prev_ret, hist>>

vars == <<mailbox, files, dir, search_range, file_types, pc, exit, again,
          message_list, batch_start, batch_end, i, part_i, downloaded_files,
          ret, prev_ret, fetched, fetch_failed, processed, write_failed,
          writes, batches, failed, faults, raw_filename, safe_filename,
          mime_part, captured, runs, written, header, decoded, mail,
          connected, sessions, sent, flow, calls>>

\* the state of a download call that has not started
NotStarted ==
    /\ exit = "none"
    /\ again = FALSE
    /\ message_list = <<>>
    /\ batch_start = 0
    /\ batch_end = 0
    /\ i = 1
    /\ part_i = 1
    /\ downloaded_files = <<>>
    /\ ret = None
    /\ prev_ret = None
    /\ fetched = <<>>
    /\ fetch_failed = {}
    /\ processed = {}
    /\ write_failed = {}
    /\ writes = <<>>
    /\ batches = <<>>
    /\ failed = {}
    /\ faults = 0

\* no two calls are running at once
NoRace ==
    /\ runs = <<>>
    /\ written = <<>>

\* the outcome of a Python expression: a string, or an exception
Str(chars) == [raised |-> FALSE, str |-> chars]

Raised == [raised |-> TRUE, str |-> <<>>]

\* a missing header value: part.get_filename() is None
NoHeader == [kind |-> "missing", parts |-> <<>>, malformed |-> FALSE]

\* no header is being decoded
NoDecode ==
    /\ header = NoHeader
    /\ decoded = Str(<<>>)

\* self.mail: None, or an IMAP4_SSL object in a state of imaplib, with the
\* number of the session its login opened (0 when the login failed)
Mail(state, session) == [state |-> state, session |-> session]

NoMail == Mail("None", 0)

\* a downloader as __init__ leaves it, connect() never called
NewDownloader ==
    /\ mail = NoMail
    /\ connected = "never"
    /\ sessions = <<>>
    /\ sent = <<>>
    /\ calls = <<>>

\* the sessions are not looked at: the downloader of a call is connected
NoSession ==
    /\ NewDownloader
    /\ flow = "none"

Init ==
    /\ NoRace
    /\ NoDecode
    /\ NoSession
    /\ mailbox \in Mailboxes
    /\ \E disk \in Disks : files = disk.files /\ dir = disk.dir
    /\ search_range \in SearchRanges
    /\ file_types \in FileTypeLists
    /\ raw_filename = <<>>
    /\ safe_filename = <<>>
    /\ mime_part = Part("multipart", "none", NoFilename, "")
    /\ captured = FALSE
    /\ pc = "idle"
    /\ exit = "none"
    /\ again = FALSE
    /\ message_list = <<>>
    /\ batch_start = 0
    /\ batch_end = 0
    /\ i = 1
    /\ part_i = 1
    /\ downloaded_files = <<>>
    /\ ret = None
    /\ prev_ret = None
    /\ fetched = <<>>
    /\ fetch_failed = {}
    /\ processed = {}
    /\ write_failed = {}
    /\ writes = <<>>
    /\ batches = <<>>
    /\ failed = {}
    /\ faults = 0

----------------------------------------------------------------------------
(* The four range variants *)

\* the variants whose loop is the batch loop
Batched(type) == type \in {"all", "count_limit", "recent_days"}

\* the variants that test os.path.exists(file_path) before writing
ChecksExisting(type) == type \in {"all", "count_limit", "recent_days"}

SinceBefore(since, before) == [key |-> "SINCE_BEFORE", since |-> since, before |-> before]

\* the search criterion of each variant
CriterionAll == [key |-> "ALL"]

CriterionDateRangeSwapped(sr) ==
    SinceBefore(ConvertDateToImapFormat(sr.end_date),
                ConvertDateToImapFormat(sr.start_date))

CriterionDateRange(sr) ==
    SinceBefore(ConvertDateToImapFormat(sr.start_date),
                ConvertDateToImapFormat(sr.end_date))

CriterionCountLimit == [key |-> "ALL"]

CriterionRecentDaysEarly(sr, now) ==
    SinceBefore(FormatImapDate(AddDays(now, 0 - sr.recent_days - 1)),
                FormatImapDate(now))

CriterionRecentDaysThroughToday(sr, now) ==
    SinceBefore(FormatImapDate(AddDays(now, 0 - sr.recent_days)),
                FormatImapDate(AddDays(now, 1)))

CriterionRecentDays(sr, now) ==
    SinceBefore(FormatImapDate(AddDays(now, 0 - sr.recent_days)),
                FormatImapDate(now))

Criterion(sr) ==
    CASE sr.type = "all" -> CriterionAll
      [] sr.type = "date_range" -> CriterionDateRange(sr)
      [] sr.type = "count_limit" -> CriterionCountLimit
      [] sr.type = "recent_days" -> CriterionRecentDays(sr, Today)

\* the server accepts the criterion: every date in it is a date literal
WellFormed(criterion) ==
    \/ criterion.key = "ALL"
    \/ /\ criterion.key = "SINCE_BEFORE"
       /\ "dd" \in DOMAIN criterion.since
       /\ "dd" \in DOMAIN criterion.before

\* SEARCH on the server: the matching IDs in ascending order.  SINCE d matches
\* the messages received on d or later, BEFORE d those received earlier than d.
ServerSearch(mb, criterion) ==
    LET ids == [k \in 1..Len(mb) |-> k]
        Hit(k) ==
            \/ criterion.key = "ALL"
            \/ /\ criterion.key = "SINCE_BEFORE"
               /\ DateLeq(ReadImapDate(criterion.since), mb[k].date)
               /\ DateLess(mb[k].date, ReadImapDate(criterion.before))
    IN  SelectSeq(ids, Hit)

\* message_list of each variant, from the list the search returned
MessageListAll(found) == Reverse(found)

MessageListDateRange(found) == found

MessageListCountLimit(found, count_limit) == SliceTo(Reverse(found), count_limit)

MessageListRecentDays(found) == Reverse(found)

MessageList(sr, found) ==
    CASE sr.type = "all" -> MessageListAll(found)
      [] sr.type = "date_range" -> MessageListDateRange(found)
      [] sr.type = "count_limit" -> MessageListCountLimit(found, sr.count_limit)
      [] sr.type = "recent_days" -> MessageListRecentDays(found)

----------------------------------------------------------------------------
(* One download call: download_attachments_with_range and the function of  *)
(* the configured type it dispatches to.  The four functions share their   *)
(* text; where they differ the operators above say how.                    *)

type == search_range.type

batch_size == search_range.batch_size

Message == mailbox[message_list[i]]

CurrentPart == Message.parts[part_i]

Return(value, by) ==
    /\ pc' = "returned"
    /\ exit' = by
    /\ ret' = value

\* Call without os.makedirs
CallWithoutMakedirs ==
    /\ \/ pc = "idle" /\ again' = FALSE
       \/ pc = "returned" /\ ~again /\ again' = TRUE
    /\ pc' = "select"
    /\ prev_ret' = ret
    /\ message_list' = <<>>
    /\ batch_start' = 0
    /\ batch_end' = 0
    /\ i' = 1
    /\ part_i' = 1
    /\ downloaded_files' = <<>>
    /\ fetched' = <<>>
    /\ fetch_failed' = {}
    /\ processed' = {}
    /\ write_failed' = {}
    /\ writes' = <<>>
    /\ batches' = <<>>
    /\ failed' = {}
    /\ UNCHANGED <<env, files, dir, exit, ret, faults>>

\* entry: the call creates download_path and goes on to select the folder;
\* the menu of main.py lets the user repeat the call once it has returned
Call ==
    /\ \/ pc = "idle" /\ again' = FALSE
       \/ pc = "returned" /\ ~again /\ again' = TRUE
    /\ dir' = TRUE
    /\ pc' = "select"
    /\ prev_ret' = ret
    /\ message_list' = <<>>
    /\ batch_start' = 0
    /\ batch_end' = 0
    /\ i' = 1
    /\ part_i' = 1
    /\ downloaded_files' = <<>>
    /\ fetched' = <<>>
    /\ fetch_failed' = {}
    /\ processed' = {}
    /\ write_failed' = {}
    /\ writes' = <<>>
    /\ batches' = <<>>
    /\ failed' = {}
    /\ UNCHANGED <<env, files, exit, ret, faults>>

SelectOK ==
    /\ pc = "select"
    /\ pc' = "search"
    /\ UNCHANGED <<env, files, dir, exit, again, message_list, batch_start,
                   batch_end, i, part_i, downloaded_files, ret, prev_ret, hist>>

\* SelectRejected without the test of the status: the call goes on to search
SelectRejectedIgnored ==
    /\ pc = "select"
    /\ faults < MaxFaults
    /\ faults' = faults + 1
    /\ failed' = failed \cup {"select"}
    /\ pc' = "search"
    /\ UNCHANGED <<env, files, dir, exit, again, message_list, batch_start,
                   batch_end, i, part_i, downloaded_files, ret, prev_ret,
                   fetched, fetch_failed, processed, write_failed, writes,
                   batches>>

\* status != 'OK': a bare return
SelectRejected ==
    /\ pc = "select"
    /\ faults < MaxFaults
    /\ faults' = faults + 1
    /\ failed' = failed \cup {"select"}
    /\ Return(None, "select_failed")
    /\ UNCHANGED <<env, files, dir, again, message_list, batch_start, batch_end,
                   i, part_i, downloaded_files, prev_ret, fetched, fetch_failed,
                   processed, write_failed, writes, batches>>

\* select raises: the outer handler returns []
SelectRaised ==
    /\ pc = "select"
    /\ faults < MaxFaults
    /\ faults' = faults + 1
    /\ failed' = failed \cup {"select"}
    /\ Return(List(<<>>), "select_failed")
    /\ UNCHANGED <<env, files, dir, again, message_list, batch_start, batch_end,
                   i, part_i, downloaded_files, prev_ret, fetched, fetch_failed,
                   processed, write_failed, writes, batches>>

\* the search answers OK: message_list is built and the loop is entered
SearchOK ==
    /\ pc = "search"
    /\ WellFormed(Criterion(search_range))
    /\ LET found == ServerSearch(mailbox, Criterion(search_range))
           list == MessageList(search_range, found)
       IN  /\ message_list' = list
           /\ i' = 1
           /\ batch_start' = 0
           /\ IF type = "recent_days" /\ Len(found) = 0
              THEN Return(List(<<>>), "no_emails") /\ UNCHANGED batch_end
              ELSE IF Batched(type)
              THEN pc' = "batch" /\ UNCHANGED <<exit, ret, batch_end>>
              ELSE pc' = "fetch" /\ batch_end' = Len(list) /\ UNCHANGED <<exit, ret>>
    /\ UNCHANGED <<env, files, dir, again, part_i, downloaded_files, prev_ret, hist>>

SearchRejected ==
    /\ pc = "search"
    /\ faults < MaxFaults
    /\ faults' = faults + 1
    /\ failed' = failed \cup {"search"}
    /\ Return(None, "search_failed")
    /\ UNCHANGED <<env, files, dir, again, message_list, batch_start, batch_end,
                   i, part_i, downloaded_files, prev_ret, fetched, fetch_failed,
                   processed, write_failed, writes, batches>>

\* search raises: the outer handler returns []
SearchRaised ==
    /\ pc = "search"
    /\ faults < MaxFaults
    /\ faults' = faults + 1
    /\ failed' = failed \cup {"search"}
    /\ Return(List(<<>>), "search_failed")
    /\ UNCHANGED <<env, files, dir, again, message_list, batch_start, batch_end,
                   i, part_i, downloaded_files, prev_ret, fetched, fetch_failed,
                   processed, write_failed, writes, batches>>

\* range(0, len(message_list), 0) raises ValueError: the outer handler returns []
BatchSizeZero ==
    /\ pc = "batch"
    /\ batch_size = 0
    /\ Return(List(<<>>), "error")
    /\ UNCHANGED <<env, files, dir, again, message_list, batch_start, batch_end,
                   i, part_i, downloaded_files, prev_ret, hist>>

\* BatchEnd one short
BatchEndShort(start, size, len) == Min(start + size, len) - 1

\* batch_end of the batch that starts at start
BatchEnd(start, size, len) == Min(start + size, len)

\* the next batch of the batch loop
StartBatch ==
    /\ pc = "batch"
    /\ batch_size # 0
    /\ InRange(batch_start, Len(message_list), batch_size)
    /\ batch_end' = BatchEnd(batch_start, batch_size, Len(message_list))
    /\ batches' = Append(batches,
                         SubSeq(message_list, batch_start + 1, batch_end'))
    /\ i' = batch_start + 1
    /\ pc' = "fetch"
    /\ UNCHANGED <<env, failed, files, dir, exit, again, message_list, batch_start, part_i,
                   downloaded_files, ret, prev_ret, fetched, fetch_failed,
                   processed, write_failed, writes, faults>>

\* the loop is over: return downloaded_files
Finish ==
    /\ \/ /\ pc = "batch"
          /\ batch_size # 0
          /\ ~InRange(batch_start, Len(message_list), batch_size)
       \/ /\ pc = "fetch"
          /\ ~Batched(type)
          /\ i > batch_end
    /\ Return(List(downloaded_files), "done")
    /\ UNCHANGED <<env, files, dir, again, message_list, batch_start, batch_end,
                   i, part_i, downloaded_files, prev_ret, hist>>

\* after the last part of a message, or a failed fetch: the next message, or
\* the next batch when the batch is exhausted
AfterMessage ==
    /\ i' = i + 1
    /\ part_i' = 1
    /\ IF Batched(type) /\ i + 1 > batch_end
       THEN pc' = "batch" /\ batch_start' = batch_start + batch_size
       ELSE pc' = "fetch" /\ UNCHANGED batch_start

FetchOK ==
    /\ pc = "fetch"
    /\ i <= batch_end
    /\ fetched' = Append(fetched, message_list[i])
    /\ pc' = "part"
    /\ part_i' = 1
    /\ UNCHANGED <<env, failed, files, dir, exit, again, message_list, batch_start,
                   batch_end, i, downloaded_files, ret, prev_ret, fetch_failed,
                   processed, write_failed, writes, batches, faults>>

\* FetchRejected with break for continue: the rest of the batch is left out
FetchRejectedBreaks ==
    /\ pc = "fetch"
    /\ i <= batch_end
    /\ faults < MaxFaults
    /\ faults' = faults + 1
    /\ fetched' = Append(fetched, message_list[i])
    /\ fetch_failed' = fetch_failed \cup {message_list[i]}
    /\ i' = batch_end + 1
    /\ part_i' = 1
    /\ IF Batched(type)
       THEN pc' = "batch" /\ batch_start' = batch_start + batch_size
       ELSE pc' = "fetch" /\ UNCHANGED batch_start
    /\ UNCHANGED <<env, failed, files, dir, exit, again, message_list, batch_end,
                   downloaded_files, ret, prev_ret, processed, write_failed,
                   writes, batches>>

\* FetchRejected with a retry: the same message is fetched again
FetchRejectedRetries ==
    /\ pc = "fetch"
    /\ i <= batch_end
    /\ faults < MaxFaults
    /\ faults' = faults + 1
    /\ fetched' = Append(fetched, message_list[i])
    /\ fetch_failed' = fetch_failed \cup {message_list[i]}
    /\ UNCHANGED <<env, failed, files, dir, exit, again, message_list, batch_end,
                   downloaded_files, ret, prev_ret, processed, write_failed,
                   writes, batches, pc, i, part_i, batch_start>>

\* status != 'OK': continue with the next message
FetchRejected ==
    /\ pc = "fetch"
    /\ i <= batch_end
    /\ faults < MaxFaults
    /\ faults' = faults + 1
    /\ fetched' = Append(fetched, message_list[i])
    /\ fetch_failed' = fetch_failed \cup {message_list[i]}
    /\ AfterMessage
    /\ UNCHANGED <<env, failed, files, dir, exit, again, message_list, batch_end,
                   downloaded_files, ret, prev_ret, processed, write_failed,
                   writes, batches>>

\* fetch raises: the handler of the message continues with the next message
FetchRaised ==
    /\ pc = "fetch"
    /\ i <= batch_end
    /\ faults < MaxFaults
    /\ faults' = faults + 1
    /\ fetched' = Append(fetched, message_list[i])
    /\ fetch_failed' = fetch_failed \cup {message_list[i]}
    /\ AfterMessage
    /\ UNCHANGED <<env, failed, files, dir, exit, again, message_list, batch_end,
                   downloaded_files, ret, prev_ret, processed, write_failed,
                   writes, batches>>

----------------------------------------------------------------------------
(* The part loop *)

\* the part passes the three tests in front of the filter
Candidate(part) ==
    /\ part.maintype # "multipart"
    /\ part.disposition # "none"
    /\ part.filename # NoFilename

\* 'if file_types:' is taken: the value is a list that is not empty
Truthy(types) == types.value = "list" /\ types.list # <<>>

AcceptedCaseSensitive(part, types) ==
    IF Truthy(types)
    THEN Contains(types.list, Splitext(DecodeFilename(part.filename))[2])
    ELSE TRUE

\* Accepted with 'if file_types is not None:' for 'if file_types:'
AcceptedUnlessNone(part, types) ==
    IF types.value = "None" THEN TRUE
    ELSE Contains(types.list, Lower(Splitext(DecodeFilename(part.filename))[2]))

\* the file type filter
Accepted(part, types) ==
    IF Truthy(types)
    THEN Contains(types.list, Lower(Splitext(DecodeFilename(part.filename))[2]))
    ELSE TRUE

\* os.path.join(download_path, safe_filename), as the name under download_path
FilePath(part) == CreateSafeFilename(DecodeFilename(part.filename))

\* the part is one the call saves or records
Captured(part, types) == Candidate(part) /\ Accepted(part, types)

\* files after open(file_path, 'wb') and a write of bytes
WriteFile(fs, path, bytes) ==
    [p \in DOMAIN fs \cup {path} |-> IF p = path THEN bytes ELSE fs[p]]

\* AdvancePart leaving the message after one part
AdvancePartLeavesEarly ==
    /\ processed' = processed \cup {<<message_list[i], part_i>>}
    /\ AfterMessage

\* the next part of the message, or the next message after its last part
AdvancePart ==
    /\ processed' = processed \cup {<<message_list[i], part_i>>}
    /\ IF part_i < Len(Message.parts)
       THEN part_i' = part_i + 1 /\ UNCHANGED <<pc, i, batch_start>>
       ELSE AfterMessage

\* continue: not an attachment, or not of an allowed type
PartSkipped ==
    /\ pc = "part"
    /\ ~Captured(CurrentPart, file_types)
    /\ AdvancePart
    /\ UNCHANGED <<env, failed, files, dir, exit, again, message_list, batch_end,
                   downloaded_files, ret, prev_ret, fetched, fetch_failed,
                   write_failed, writes, batches, faults>>

\* the file is there already: its path is recorded, nothing is written
PartExists ==
    /\ pc = "part"
    /\ Captured(CurrentPart, file_types)
    /\ ChecksExisting(type)
    /\ FilePath(CurrentPart) \in DOMAIN files
    /\ downloaded_files' = Append(downloaded_files, FilePath(CurrentPart))
    /\ AdvancePart
    /\ UNCHANGED <<env, failed, files, dir, exit, again, message_list, batch_end, ret,
                   prev_ret, fetched, fetch_failed, write_failed, writes,
                   batches, faults>>

\* the call gets as far as open(file_path, 'wb')
ReachesWrite ==
    /\ pc = "part"
    /\ Captured(CurrentPart, file_types)
    /\ ChecksExisting(type) => FilePath(CurrentPart) \notin DOMAIN files

\* the attachment is saved and its path recorded
PartWritten ==
    /\ ReachesWrite
    /\ files' = WriteFile(files, FilePath(CurrentPart), CurrentPart.payload)
    /\ writes' = Append(writes, FilePath(CurrentPart))
    /\ downloaded_files' = Append(downloaded_files, FilePath(CurrentPart))
    /\ AdvancePart
    /\ UNCHANGED <<env, failed, dir, exit, again, message_list, batch_end, ret, prev_ret,
                   fetched, fetch_failed, write_failed, batches, faults>>

\* PartOpenFailed without the handler of the write: the handler of the
\* message takes the exception and the rest of the message is left out
PartOpenFailedLeavesMessage ==
    /\ ReachesWrite
    /\ faults < MaxFaults
    /\ faults' = faults + 1
    /\ write_failed' = write_failed \cup {<<message_list[i], part_i>>}
    /\ processed' = processed \cup {<<message_list[i], part_i>>}
    /\ AfterMessage
    /\ UNCHANGED <<env, failed, files, dir, exit, again, message_list, batch_end,
                   downloaded_files, ret, prev_ret, fetched, fetch_failed,
                   writes, batches>>

\* open raises: the handler of the write continues with the next part
PartOpenFailed ==
    /\ ReachesWrite
    /\ faults < MaxFaults
    /\ faults' = faults + 1
    /\ write_failed' = write_failed \cup {<<message_list[i], part_i>>}
    /\ AdvancePart
    /\ UNCHANGED <<env, failed, files, dir, exit, again, message_list, batch_end,
                   downloaded_files, ret, prev_ret, fetched, fetch_failed,
                   writes, batches>>

\* write raises after open has created or emptied the file
PartWriteFailed ==
    /\ ReachesWrite
    /\ faults < MaxFaults
    /\ faults' = faults + 1
    /\ files' = WriteFile(files, FilePath(CurrentPart), Truncated)
    /\ write_failed' = write_failed \cup {<<message_list[i], part_i>>}
    /\ AdvancePart
    /\ UNCHANGED <<env, failed, dir, exit, again, message_list, batch_end,
                   downloaded_files, ret, prev_ret, fetched, fetch_failed,
                   writes, batches>>

----------------------------------------------------------------------------

Next ==
    \/ Call
    \/ SelectOK
    \/ SelectRejected
    \/ SelectRaised
    \/ SearchOK
    \/ SearchRejected
    \/ SearchRaised
    \/ BatchSizeZero
    \/ StartBatch
    \/ Finish
    \/ FetchOK
    \/ FetchRejected
    \/ FetchRaised
    \/ PartSkipped
    \/ PartExists
    \/ PartWritten
    \/ PartOpenFailed
    \/ PartWriteFailed

Spec == Init /\ [][Next]_vars

\* a call that has started keeps running: one thread, no blocking step but
\* the commands, which the server answers or fails
Running == pc \notin {"idle", "returned"} /\ Next

\* the calls on a download_path that is not there yet, over the empty folder
\* and the fullest ones whose messages all carry the parts of PartsA, with
\* every batch size and the widest date range, count limit and number of days
InitLive ==
    /\ Init
    /\ ~dir
    /\ Len(mailbox) \in {0, MaxMsgs}
    /\ \A k \in 1..Len(mailbox) : mailbox[k].parts = PartsA
    /\ search_range.start_date \in {DefaultStartDate, Ymd(DateOf(1))}
    /\ search_range.end_date \in {DefaultEndDate, Ymd(Today)}
    /\ search_range.count_limit \in {DefaultCountLimit, MaxCount}
    /\ search_range.recent_days \in {DefaultRecentDays, MaxDay}

SpecLive == InitLive /\ [][Next]_vars /\ WF_vars(Running)

TypeOK ==
    /\ pc \in {"idle", "select", "search", "batch", "fetch", "part", "returned",
              "filename", "safe_filename", "walk", "walked", "header",
              "decoded"}
    /\ again \in BOOLEAN
    /\ faults \in 0..MaxFaults

----------------------------------------------------------------------------
(* _create_safe_filename on its own, over the strings it can be given *)

NameChars == InvalidChars \cup {"a", ".", " "}

\* the strings of at most n characters
Strings(n) == UNION {[1..k -> NameChars] : k \in 0..n}

Fill(n) == [k \in 1..n |-> "a"]

Stems == {<<>>, <<"a">>, Fill(MaxFilenameLen)}

\* names about as long as the limit: a stem, a short string, a run of letters
LongNames ==
    {stem \o mid \o Fill(n) :
        stem \in Stems, mid \in Strings(MaxNameLen),
        n \in (MaxFilenameLen - MaxSlack)..(MaxFilenameLen + MaxSlack)}

Filenames == Strings(MaxNameLen) \cup LongNames

\* no download call is under way, on an empty folder
NoCall ==
    /\ NotStarted
    /\ mailbox = <<>>
    /\ search_range \in {sr \in SearchRanges : sr.type = "all" /\ sr.batch_size = 1}

InitSafeFilename ==
    /\ NoCall
    /\ NoRace
    /\ NoDecode
    /\ NoSession
    /\ files = NoFiles
    /\ dir = FALSE
    /\ file_types \in FileTypeLists
    /\ raw_filename \in Filenames
    /\ safe_filename = <<>>
    /\ mime_part = Part("multipart", "none", NoFilename, "")
    /\ captured = FALSE
    /\ pc = "filename"

\* safe_filename = self._create_safe_filename(filename)
CallCreateSafeFilename ==
    /\ pc = "filename"
    /\ safe_filename' = CreateSafeFilename(raw_filename)
    /\ pc' = "safe_filename"
    /\ UNCHANGED <<call_vars, raw_filename, mime_part, captured, race_vars,
                   decode_vars, session_vars>>

NextSafeFilename == CallCreateSafeFilename

SpecSafeFilename == InitSafeFilename /\ [][NextSafeFilename]_vars

----------------------------------------------------------------------------
(* The tests of the part loop on their own, over the parts of a message *)

Maintypes == {"multipart", "application"}

\* Content-Disposition: absent, attachment or inline
Dispositions == {"none", "attachment", "inline"}

PartFilenames ==
    {NoFilename,
     <<"a", ".", "x">>, <<"a", ".", "X">>, <<"c", ".", "p">>,
     <<" ", "b", ":", "p", ".", "X">>, <<"a", ".", "x", " ">>,
     <<"a", "x">>, <<".", "x">>, <<"a", ".", "b", ".", "x">>}

Parts == {Part(m, d, f, "") : m \in Maintypes, d \in Dispositions, f \in PartFilenames}

\* file_types as a caller can pass it: None (the default), or a list of
\* extensions, which can be empty
FilterLists ==
    {None, List(<<>>), List(<<<<".", "x">>>>),
     List(<<<<".", "p">>, <<".", "x">>>>), List(<<<<".", "X">>>>)}

InitPart ==
    /\ NoCall
    /\ NoRace
    /\ NoDecode
    /\ NoSession
    /\ files = NoFiles
    /\ dir = FALSE
    /\ file_types \in FilterLists
    /\ raw_filename = <<>>
    /\ safe_filename = <<>>
    /\ mime_part \in Parts
    /\ captured = FALSE
    /\ pc = "walk"

\* the part passes the tests and goes on to be saved or recorded
PartCaptured ==
    /\ pc = "walk"
    /\ Captured(mime_part, file_types)
    /\ captured' = TRUE
    /\ raw_filename' = DecodeFilename(mime_part.filename)
    /\ safe_filename' = FilePath(mime_part)
    /\ pc' = "walked"
    /\ UNCHANGED <<call_vars, mime_part, race_vars, decode_vars, session_vars>>

\* one of the tests ends the iteration: continue
PartPassedOver ==
    /\ pc = "walk"
    /\ ~Captured(mime_part, file_types)
    /\ pc' = "walked"
    /\ UNCHANGED <<call_vars, raw_filename, safe_filename, mime_part, captured,
                   race_vars, decode_vars, session_vars>>

NextPart ==
    \/ PartCaptured
    \/ PartPassedOver

SpecPart == InitPart /\ [][NextPart]_vars

----------------------------------------------------------------------------
(* Two calls of a variant that tests os.path.exists, running at once on    *)
(* one download_path: the test and the write of each are two steps         *)

Runs == {1, 2}

\* the parts of the model that a call captures
CapturedParts == {PartsA[2], PartsB[1], PartsB[2]}

\* the attachments a call has to save, in order
PartSequences == UNION {[1..n -> CapturedParts] : n \in 0..MaxParts}

\* a call in front of the existence test of its first attachment
RunAt(todo) ==
    [pc |-> "exists", todo |-> todo, downloaded_files |-> <<>>, seen |-> 0]

InitRace ==
    /\ NoCall
    /\ \E disk \in Disks : files = disk.files /\ dir = TRUE
    /\ file_types \in FileTypeLists
    /\ raw_filename = <<>>
    /\ safe_filename = <<>>
    /\ mime_part = Part("multipart", "none", NoFilename, "")
    /\ captured = FALSE
    /\ pc = "idle"
    /\ NoDecode
    /\ NoSession
    /\ runs \in {<<RunAt(a), RunAt(b)>> : a \in PartSequences, b \in PartSequences}
    /\ written = <<>>

RaceUnchanged ==
    UNCHANGED <<ctl, hist, mailbox, search_range, file_types, dir,
                raw_filename, safe_filename, mime_part, captured, decode_vars,
                session_vars>>

\* os.path.exists(file_path) is true: the path is recorded
RunExists(r) ==
    /\ runs[r].pc = "exists"
    /\ runs[r].todo # <<>>
    /\ FilePath(Head(runs[r].todo)) \in DOMAIN files
    /\ runs' = [runs EXCEPT
                  ![r].todo = Tail(@),
                  ![r].downloaded_files = Append(@, FilePath(Head(runs[r].todo)))]
    /\ UNCHANGED <<files, written>>
    /\ RaceUnchanged

\* RunAbsent without the test
RunAbsentUntested(r) ==
    /\ runs[r].pc = "exists"
    /\ runs[r].todo # <<>>
    /\ runs' = [runs EXCEPT ![r].pc = "open", ![r].seen = Len(written)]
    /\ UNCHANGED <<files, written>>
    /\ RaceUnchanged

\* os.path.exists(file_path) is false: the call goes on to open the file
RunAbsent(r) ==
    /\ runs[r].pc = "exists"
    /\ runs[r].todo # <<>>
    /\ FilePath(Head(runs[r].todo)) \notin DOMAIN files
    /\ runs' = [runs EXCEPT ![r].pc = "open", ![r].seen = Len(written)]
    /\ UNCHANGED <<files, written>>
    /\ RaceUnchanged

\* open(file_path, 'wb') and write: the file is saved and its path recorded
RunWrites(r) ==
    /\ runs[r].pc = "open"
    /\ LET part == Head(runs[r].todo)
       IN  /\ files' = WriteFile(files, FilePath(part), part.payload)
           /\ written' = Append(written, [run |-> r, path |-> FilePath(part),
                                          seen |-> runs[r].seen])
           /\ runs' = [runs EXCEPT
                         ![r].pc = "exists",
                         ![r].todo = Tail(@),
                         ![r].downloaded_files = Append(@, FilePath(part))]
    /\ RaceUnchanged

NextRace ==
    \/ \E r \in Runs : RunExists(r)
    \/ \E r \in Runs : RunAbsent(r)
    \/ \E r \in Runs : RunWrites(r)

SpecRace == InitRace /\ [][NextRace]_vars

----------------------------------------------------------------------------
(* _decode_filename and _safe_decode on header values with encoded words   *)

\* the list of _safe_decode, default_encoding first
Encodings == <<"utf-8", "gbk", "gb2312", "big5", "latin1", "cp1252">>

\* the codecs bytes.decode finds; any other name is a LookupError
KnownCodecs == {Encodings[k] : k \in DOMAIN Encodings}

NoCharset == "None"

\* a pair of decode_header: text of a str, or bytes with the charset their
\* encoded word declares and the codecs that decode them without error
Segment(kind, text, charset, valid) ==
    [kind |-> kind, text |-> text, charset |-> charset, valid |-> valid]

\* bytes.decode(encoding): the text, marked with the codec that produced it
BytesDecode(bytes, encoding) ==
    IF encoding \notin KnownCodecs THEN Raised
    ELSE IF encoding \notin bytes.valid THEN Raised
    ELSE Str(<<bytes.text, encoding>>)

\* the loop of _safe_decode over its encodings, then errors='replace'
RECURSIVE TryEncodings(_, _)
TryEncodings(bytes, encodings) ==
    IF encodings = <<>> THEN Str(<<bytes.text, "replace">>)
    ELSE LET tried == BytesDecode(bytes, Head(encodings))
         IN  IF tried.raised THEN TryEncodings(bytes, Tail(encodings)) ELSE tried

\* _safe_decode with the default encoding alone and no handler
SafeDecodeDefaultOnly(text) ==
    IF text.kind = "str" THEN Str(<<text.text>>)
    ELSE BytesDecode(text, Encodings[1])

\* _safe_decode
SafeDecode(text) ==
    IF text.kind = "str" THEN Str(<<text.text>>)
    ELSE TryEncodings(text, Encodings)

\* one pair of decoded_parts in the loop of _decode_filename
DecodePart(part) ==
    IF part.kind = "bytes"
    THEN IF part.charset # NoCharset
         THEN LET declared == BytesDecode(part, part.charset)
              IN  IF declared.raised THEN SafeDecode(part) ELSE declared
         ELSE SafeDecode(part)
    ELSE Str(<<part.text>>)

\* decoded_filename after the loop over decoded_parts
RECURSIVE DecodeParts(_)
DecodeParts(parts) ==
    IF parts = <<>> THEN Str(<<>>)
    ELSE LET first == DecodePart(Head(parts))
             rest == DecodeParts(Tail(parts))
         IN  IF first.raised \/ rest.raised THEN Raised
             ELSE Str(first.str \o rest.str)

\* the header value as one text, as the handler of _decode_filename passes
\* it to _safe_decode
Whole(filename) ==
    IF filename.kind = "bytes" THEN filename.parts[1]
    ELSE Segment("str", "raw", NoCharset, {})

\* _decode_filename on a header value: missing or empty, a str that
\* decode_header splits into pairs or fails to parse, or a bytes object,
\* on which decode_header raises TypeError
DecodeFilenameHeader(filename) ==
    IF filename.kind = "missing" \/ filename.parts = <<>> THEN Str(<<>>)
    ELSE IF filename.malformed \/ filename.kind = "bytes"
    THEN SafeDecode(Whole(filename))
    ELSE LET joined == DecodeParts(filename.parts)
         IN  IF joined.raised THEN SafeDecode(Whole(filename))
             ELSE Str(Strip(joined.str, WhitespaceChars))

\* what the encoded words of a header can hold
ValidSets == {{"latin1"} \cup v : v \in SUBSET {"utf-8", "gbk"}}

Charsets == {NoCharset, "utf-8", "gbk", "x-unknown"}

Segments ==
    {Segment("str", t, NoCharset, {}) : t \in {"a", " "}}
    \cup {Segment("bytes", "b", c, v) : c \in Charsets, v \in ValidSets}

Headers ==
    {NoHeader}
    \cup {[kind |-> "str", parts |-> ps, malformed |-> m] :
            ps \in UNION {[1..n -> Segments] : n \in 0..MaxSegments},
            m \in BOOLEAN}
    \cup {[kind |-> "bytes", parts |-> <<Segment("bytes", "b", NoCharset, v)>>,
           malformed |-> FALSE] : v \in ValidSets}

InitDecode ==
    /\ NoCall
    /\ NoRace
    /\ NoSession
    /\ files = NoFiles
    /\ dir = FALSE
    /\ file_types \in FileTypeLists
    /\ raw_filename = <<>>
    /\ safe_filename = <<>>
    /\ mime_part = Part("multipart", "none", NoFilename, "")
    /\ captured = FALSE
    /\ header \in Headers
    /\ decoded = Str(<<>>)
    /\ pc = "header"

\* filename = self._decode_filename(filename)
CallDecodeFilename ==
    /\ pc = "header"
    /\ decoded' = DecodeFilenameHeader(header)
    /\ pc' = "decoded"
    /\ UNCHANGED <<call_vars, raw_filename, safe_filename, mime_part, captured,
                   race_vars, header, session_vars>>

NextDecode == CallDecodeFilename

SpecDecode == InitDecode /\ [][NextDecode]_vars

----------------------------------------------------------------------------
(* Properties *)

SetOf(seq) == {seq[k] : k \in 1..Len(seq)}

Ascending(seq) == \A j, k \in 1..Len(seq) : j < k => seq[j] < seq[k]

NoDuplicates(seq) == \A j, k \in 1..Len(seq) : j < k => seq[j] # seq[k]

\* the call has left by the return at the end of its loop
Done == pc = "returned" /\ exit = "done"

\* C1: a count-limited call with count_limit n >= 1 (and a batch size >= 1)
\* fetches at most n messages, and they are the n oldest: the IDs 1..n, or
\* all of the folder when it holds fewer than n.
C1_CountLimitTakesOldest ==
    (Done /\ type = "count_limit" /\ search_range.count_limit >= 1
          /\ batch_size >= 1 /\ faults = 0)
        => /\ Len(fetched) <= search_range.count_limit
           /\ SetOf(fetched) = 1..Min(search_range.count_limit, Len(mailbox))

\* C2: in each of the four variants the messages are fetched oldest first,
\* in ascending order of ID (the search returning its IDs in ascending
\* order), so that all four process the search result in the same direction.
C2_FetchedOldestFirst ==
    (Done /\ batch_size >= 1 /\ faults = 0) => Ascending(fetched)

\* C3: in every variant, when the file of a part the call captures is there
\* already, the step that handles the part records the path in the result
\* and leaves every file's bytes as they were.
C3_ExistingFileKept ==
    [][(/\ pc = "part"
        /\ Captured(CurrentPart, file_types)
        /\ FilePath(CurrentPart) \in DOMAIN files
        /\ faults' = faults)
       => /\ files' = files
          /\ downloaded_files' = Append(downloaded_files, FilePath(CurrentPart))]_vars

\* C4: within one call no file name is written more than once.
C4_NoPathWrittenTwice == NoDuplicates(writes)

\* C5: a second call after a first one, with nothing failing in either,
\* returns what the first returned and writes no file; in every variant.
C5_SecondRunIdempotent ==
    (again /\ pc = "returned" /\ faults = 0)
        => ret = prev_ret /\ writes = <<>>


\* every part of the message with this ID has been through the part loop
FullyProcessed(id) ==
    \A j \in 1..Len(mailbox[id].parts) : <<id, j>> \in processed

\* the path of every captured part of the message is in the list the call
\* builds, but for the parts whose write failed
AttachmentsListed(id) ==
    \A j \in 1..Len(mailbox[id].parts) :
        (Captured(mailbox[id].parts[j], file_types) /\ <<id, j>> \notin write_failed)
            => Contains(downloaded_files, FilePath(mailbox[id].parts[j]))

\* C6: a call in which the fetch of a message failed still returns by the
\* return at the end of its loop, has fetched every selected message once, and
\* has handled every part of every message whose fetch succeeded, the paths
\* of their captured attachments being in the list it returns.
C6_FetchFailureSkipsOneMessage ==
    (pc = "returned" /\ fetch_failed # {})
        => /\ exit = "done"
           /\ ret = List(downloaded_files)
           /\ SetOf(fetched) = SetOf(message_list)
           /\ NoDuplicates(fetched)
           /\ \A id \in SetOf(message_list) \ fetch_failed :
                  FullyProcessed(id) /\ AttachmentsListed(id)

\* a fetch failed in the first of several batches, and the call returned files
C6_Witness ==
    /\ pc = "returned"
    /\ Len(batches) >= 2
    /\ fetch_failed \cap SetOf(batches[1]) # {}
    /\ Len(batches[1]) >= 2
    /\ downloaded_files # <<>>

\* the parts the call has captured without a failed write
Saved ==
    {e \in processed :
        Captured(mailbox[e[1]].parts[e[2]], file_types) /\ e \notin write_failed}

\* C7: a failed write adds no path to the list (the list has one entry for
\* each captured part whose write did not fail), and a call in which a write
\* failed still returns by the return at the end of its loop, having handled
\* every part of every message it fetched, the parts after the failed one too.
C7_WriteFailureContained ==
    /\ Len(downloaded_files) = Cardinality(Saved)
    /\ (pc = "returned" /\ write_failed # {})
        => /\ exit = "done"
           /\ SetOf(fetched) = SetOf(message_list)
           /\ \A id \in SetOf(message_list) \ fetch_failed : FullyProcessed(id)

\* a write failed for a part that is neither the last of its message nor in
\* the last message, and the call returned files
C7_Witness ==
    /\ pc = "returned"
    /\ downloaded_files # <<>>
    /\ \E e \in write_failed :
          /\ e[2] < Len(mailbox[e[1]].parts)
          /\ Captured(mailbox[e[1]].parts[e[2] + 1], file_types)
          /\ \E k \in 1..(Len(message_list) - 1) : message_list[k] = e[1]

\* the file names in a returned value
PathsOf(value) == IF value.value = "list" THEN value.list ELSE <<>>

\* C8: once the server has rejected the selection of the folder or failed
\* the search, the call is over: it has issued no fetch, handled no part,
\* written no file, and the value it returns holds no path.  A call the
\* server failed neither for returns a list and by another return, also
\* when the search found nothing.
C8_SelectOrSearchFailureAborts ==
    /\ failed # {}
        => /\ pc = "returned"
           /\ exit \in {"select_failed", "search_failed"}
           /\ fetched = <<>>
           /\ processed = {}
           /\ writes = <<>>
           /\ PathsOf(ret) = <<>>
    /\ (pc = "returned" /\ failed = {})
        => /\ exit \in {"done", "no_emails", "error"}
           /\ ret.value = "list"

\* the search failed on a folder that holds messages
C8_Witness ==
    /\ pc = "returned"
    /\ failed = {"search"}
    /\ Len(mailbox) >= 2


\* the k-th of the consecutive chunks of size b of a list
Chunk(list, b, k) == SubSeq(list, (k - 1) * b + 1, Min(k * b, Len(list)))

\* the batches started so far are the first consecutive chunks of size b of
\* message_list, and at the end of the loop they are all ceil(L / b) of them,
\* every selected message having been fetched once, in the order of the list
BatchesAreChunks(b) ==
    /\ Len(batches) <= CeilDiv(Len(message_list), b)
    /\ \A k \in 1..Len(batches) : batches[k] = Chunk(message_list, b, k)
    /\ Done => /\ Len(batches) = CeilDiv(Len(message_list), b)
               /\ Flatten(batches) = message_list
               /\ fetched = message_list

\* the passes a finished call has made over message_list: the batches of a
\* batched variant; the one loop of date_range over the whole list
Passes ==
    IF Batched(type) THEN batches
    ELSE IF message_list = <<>> THEN <<>> ELSE <<message_list>>

C10_BatchSizeBelowOneRejected ==
    (/\ pc = "returned"
     /\ Batched(type)
     /\ batch_size < 1
     /\ failed = {}
     /\ message_list # <<>>)
        => \/ exit = "error"
           \/ SetOf(fetched) = SetOf(message_list)

\* the search of the call has answered and message_list is what it selected
Searched ==
    \/ pc \in {"batch", "fetch", "part"}
    \/ pc = "returned" /\ failed = {}

\* the IDs of the messages of the mailbox received from day lo to day hi,
\* both days included
ReceivedWithin(lo, hi) ==
    {k \in 1..Len(mailbox) : DateLeq(lo, mailbox[k].date) /\ DateLeq(mailbox[k].date, hi)}

\* C11: a date_range call whose start date is later than its end date
\* selects no message and fetches nothing, and when the server fails neither
\* the selection nor the search it returns the empty list by the return at
\* the end of its loop.
C11_ReversedDateRangeIsEmpty ==
    (type = "date_range" /\ search_range.start_date > search_range.end_date)
        => /\ message_list = <<>>
           /\ fetched = <<>>
           /\ writes = <<>>
           /\ (pc = "returned" /\ failed = {})
                  => exit = "done" /\ ret = List(<<>>)

\* a reversed range over a folder with messages received between the two
\* dates, the call having returned
C11_Witness ==
    /\ type = "date_range"
    /\ search_range.start_date > search_range.end_date
    /\ Done
    /\ ReceivedWithin(ParseYmd(search_range.end_date),
                      ParseYmd(search_range.start_date)) # {}

\* C12: a date_range call with start <= end selects every message received
\* on a day d with start <= d <= end, both days included; a message received
\* on the end date is selected.
C12_DateRangeEndInclusive ==
    (/\ type = "date_range"
     /\ search_range.start_date <= search_range.end_date
     /\ Searched)
        => SetOf(message_list) = ReceivedWithin(ParseYmd(search_range.start_date),
                                                ParseYmd(search_range.end_date))

\* C13: a recent_days call with parameter n fetches only messages received
\* from the day n days before today to today; none received earlier.
C13_RecentDaysWithinWindow ==
    type = "recent_days"
        => SetOf(fetched) \subseteq
               ReceivedWithin(AddDays(Today, 0 - search_range.recent_days), Today)

\* a recent_days call has fetched a message of the first day of its window
\* while the folder holds an older one
C13_Witness ==
    /\ type = "recent_days"
    /\ Done
    /\ \E k \in SetOf(fetched) :
          mailbox[k].date = AddDays(Today, 0 - search_range.recent_days)
    /\ \E k \in 1..Len(mailbox) :
          DateLess(mailbox[k].date, AddDays(Today, 0 - search_range.recent_days))

\* C14: a recent_days call with n >= 1 selects every message received in
\* the last n days, those received today included.
C14_RecentDaysIncludesToday ==
    (type = "recent_days" /\ search_range.recent_days >= 1 /\ Searched)
        => ReceivedWithin(AddDays(Today, 0 - search_range.recent_days), Today)
               \subseteq SetOf(message_list)

\* C20: a recent_days call with n <= 0 has an empty window: it selects no
\* message and fetches nothing, and when the server fails neither the
\* selection nor the search it returns the empty list, by the return taken
\* when the search finds nothing.
C20_RecentDaysBelowOneIsEmpty ==
    (type = "recent_days" /\ search_range.recent_days <= 0)
        => /\ message_list = <<>>
           /\ fetched = <<>>
           /\ writes = <<>>
           /\ (pc = "returned" /\ failed = {})
                  => exit = "no_emails" /\ ret = List(<<>>)

\* a recent_days call with n = 0 has returned, the folder holding a message
\* received today
C20_Witness ==
    /\ type = "recent_days"
    /\ search_range.recent_days = 0
    /\ pc = "returned"
    /\ exit = "no_emails"
    /\ \E k \in 1..Len(mailbox) : mailbox[k].date = Today

\* the paths of the parts of a message the call has captured without a
\* failed write, in the order of the parts
PathsOfMessage(id) ==
    LET parts == mailbox[id].parts
        Kept(j) == <<id, j>> \in Saved
        kept == SelectSeq([j \in 1..Len(parts) |-> j], Kept)
    IN  [k \in 1..Len(kept) |-> FilePath(parts[kept[k]])]

\* the paths of the attachments in the order in which the call handled them
ProcessedPaths == Flatten([k \in 1..Len(fetched) |-> PathsOfMessage(fetched[k])])

\* a sequence without the later occurrences of its elements
RECURSIVE Distinct(_)
Distinct(seq) ==
    IF seq = <<>> THEN <<>>
    ELSE LET front == Distinct(SubSeq(seq, 1, Len(seq) - 1))
             last == seq[Len(seq)]
         IN  IF Contains(front, last) THEN front ELSE Append(front, last)

\* C18: the list a call returns holds each path once, also when several
\* messages or several parts carry attachments of the same sanitized name,
\* and in the order in which the attachments were handled.
C18_ReturnedPathsDistinct ==
    Done => /\ NoDuplicates(PathsOf(ret))
            /\ PathsOf(ret) = Distinct(ProcessedPaths)

\* the characters a file name must not hold
ReservedChars == {"<", ">", ":", "\"", "/", "\\", "|", "?", "*"}

\* C15: _create_safe_filename returns, for every string, a name that is not
\* empty and holds none of the reserved characters: for the empty string,
\* for strings of reserved characters, spaces and periods only, and for
\* names longer than the limit.
C15_SafeFilenameTotal ==
    pc = "safe_filename"
        => /\ safe_filename # <<>>
           /\ \A k \in 1..Len(safe_filename) : safe_filename[k] \notin ReservedChars

\* the function has returned for a name of periods and spaces only, and for
\* a name longer than the limit with reserved characters in it
C15_Witness ==
    /\ pc = "safe_filename"
    /\ \/ /\ raw_filename # <<>>
          /\ SetOf(raw_filename) \subseteq {" ", "."}
          /\ safe_filename = UnnamedFile
       \/ /\ Len(raw_filename) > MaxFilenameLen
          /\ SetOf(raw_filename) \cap ReservedChars # {}

\* the name after the replacement of the reserved characters and the strip,
\* the one whose length the function tests
Cleaned(name) ==
    Strip([k \in 1..Len(name) |-> IF name[k] \in ReservedChars THEN "_" ELSE name[k]],
          {" ", "."})

\* the suffix of a name from its last period, empty when it has none
SuffixFromLastPeriod(name) ==
    LET periods == {k \in 1..Len(name) : name[k] = "."}
    IN  IF periods = {} THEN <<>>
        ELSE SubSeq(name, CHOOSE k \in periods : \A j \in periods : j <= k, Len(name))

EndsWith(name, suffix) ==
    /\ Len(suffix) <= Len(name)
    /\ SubSeq(name, Len(name) - Len(suffix) + 1, Len(name)) = suffix

\* C16: the name _create_safe_filename returns is at most 200 characters
\* long for every string, and when the name is cut the suffix from its last
\* period is whole at the end of the result, whatever the lengths of stem
\* and suffix.
C16_SafeFilenameAtMostLimit ==
    pc = "safe_filename"
        => /\ Len(safe_filename) <= MaxFilenameLen
           /\ Len(Cleaned(raw_filename)) > MaxFilenameLen
                  => EndsWith(safe_filename, SuffixFromLastPeriod(Cleaned(raw_filename)))

\* the extension of a name: the suffix from its last period, when a
\* character other than a period stands before that period
ExtensionOf(name) ==
    LET periods == {k \in 1..Len(name) : name[k] = "."}
        last == CHOOSE k \in periods : \A j \in periods : j <= k
    IN  IF periods = {} \/ (\A j \in 1..(last - 1) : name[j] = ".") THEN <<>>
        ELSE SubSeq(name, last, Len(name))

C19_OnlyAttachmentsCaptured ==
    (pc = "walked" /\ captured)
        => /\ mime_part.maintype # "multipart"
           /\ mime_part.disposition = "attachment"
           /\ mime_part.filename # NoFilename

\* a step that issues a search, and one that issues a fetch
SearchIssued == pc = "search" /\ pc' # "search"

FetchIssued == Len(fetched') > Len(fetched)

\* C21: in every call the commands go select, search, fetches.  The search
\* is issued only after a select the server accepted, a fetch only after a
\* search it answered, and only for the next message of the selection once
\* every part of the messages fetched before it has been handled; select and
\* search are issued once per call, the position of the call coming back to
\* them only by a new call.
C21_CommandsInOrder ==
    [][/\ (pc' = "select" /\ pc # "select") => pc \in {"idle", "returned"}
       /\ (pc' = "search" /\ pc # "search") => pc = "select"
       /\ SearchIssued => "select" \notin failed /\ fetched = <<>>
       /\ FetchIssued
            => /\ pc = "fetch"
               /\ failed = {}
               /\ fetched' = Append(fetched, message_list[i])
               /\ \A id \in SetOf(fetched) \ fetch_failed : FullyProcessed(id)]_vars

\* a call has fetched three messages, each after the parts of the one before
C21_Witness ==
    /\ Done
    /\ Len(fetched) = 3
    /\ fetch_failed = {}
    /\ \A id \in SetOf(fetched) : FullyProcessed(id)

\* C22: with a batch size >= 1 a call that has started returns, whatever the
\* folder and whichever fetches and writes fail: by the return at the end of
\* its loop or the one taken when the search finds nothing, or by the return
\* after a failed select or a failed search; and it fetches no message twice.
C22_CallTerminates ==
    /\ []NoDuplicates(fetched)
    /\ (pc = "select" /\ batch_size >= 1)
           ~> (/\ pc = "returned"
               /\ exit \in {"done", "no_emails", "select_failed", "search_failed"})

\* a call with a failed fetch and several batches has returned
C22_Witness ==
    /\ Done
    /\ batch_size >= 1
    /\ fetch_failed # {}
    /\ Len(batches) >= 2
    /\ Len(fetched) = 3

\* C23: download_path is created, when it is absent, once per call and at
\* its start: it exists wherever the call is between its select and its
\* return, hence at every fetch and every write, and the only step that
\* creates it is the entry of a call.
C23_DirCreatedOnceBeforeWork ==
    /\ [](pc \in {"select", "search", "batch", "fetch", "part"} => dir)
    /\ [][/\ (FetchIssued \/ files' # files) => dir
          /\ dir' # dir => /\ ~dir /\ dir'
                           /\ pc \in {"idle", "returned"}
                           /\ pc' = "select"]_vars

\* a first call on an absent download_path has fetched messages and written
\* the file of an attachment
C23_Witness ==
    /\ Done
    /\ ~again
    /\ Batched(type)
    /\ dir
    /\ fetched # <<>>
    /\ Contains(writes, <<"a", ".", "x">>)

\* C26: a count_limit call with n <= 0 fetches no message and returns no
\* path, whatever the size of the folder; a negative n has no more messages
\* handled than n = 0.
C26_CountLimitBelowOneIsEmpty ==
    (type = "count_limit" /\ search_range.count_limit <= 0)
        => /\ fetched = <<>>
           /\ processed = {}
           /\ pc = "returned" => PathsOf(ret) = <<>>

\* the files in download_path that the call under way, a first call of a
\* variant that never overwrites, has created
CreatedByCall == {p \in DOMAIN files : files[p] # Older}

\* C27: a call leaves no file in download_path that it created and did not
\* report: the path of every file it created is in the list it returns, also
\* when a write failed part-way.
C27_CreatedFilesReported ==
    (pc = "returned" /\ ~again /\ ChecksExisting(type))
        => \A p \in CreatedByCall : Contains(PathsOf(ret), p)

\* C30: an empty list of allowed extensions has the effect of no list: with
\* either, every part with a disposition and a file name is captured and
\* the filter rejects none.
C30_EmptyListIsNoList ==
    (pc = "walked" /\ file_types \in {None, List(<<>>)})
        => (captured <=> Candidate(mime_part))

\* a part whose extension is in none of the lists of the model has been
\* captured under the empty list
C30_Witness ==
    /\ pc = "walked"
    /\ file_types = List(<<>>)
    /\ captured
    /\ mime_part.filename = <<"a", "x">>

\* C24: two calls running at once on one download_path can both find a path
\* absent and then both write it, the test and the write being two steps.  A
\* path is written twice only so: the two writes are by different calls, and
\* the later writer made its test before the earlier write.
C24_DoubleWriteOnlyByRace ==
    \A j, k \in 1..Len(written) :
        (j < k /\ written[j].path = written[k].path)
            => /\ written[j].run # written[k].run
               /\ written[k].seen < j

\* both calls have written the same path
C24_Witness ==
    \E j, k \in 1..Len(written) :
        /\ j < k
        /\ written[j].path = written[k].path
        /\ written[j].run # written[k].run
        /\ written[k].seen < j
        /\ written[j].seen < j

\* the codec a segment of bytes is to be decoded with: the charset its
\* encoded word declares when that decodes it, else the first of the
\* fallback list that does
CodecFor(segment) ==
    IF segment.charset \in segment.valid THEN segment.charset
    ELSE Encodings[CHOOSE k \in DOMAIN Encodings :
                      /\ Encodings[k] \in segment.valid
                      /\ \A j \in 1..(k - 1) : Encodings[j] \notin segment.valid]

\* the text of a segment: a str as it is, bytes as decoded with their codec
TextOf(segment) ==
    IF segment.kind = "str" THEN <<segment.text>>
    ELSE <<segment.text, CodecFor(segment)>>

\* C25: _decode_filename raises for no header value and returns a string:
\* the empty string for a missing or empty value, and for a value that
\* decode_header splits into segments the texts of the segments in their
\* order (stripped of surrounding whitespace), each segment of bytes decoded
\* with its declared charset when that works and else with the first of the
\* fallback list that does.
C25_DecodeNeverRaises ==
    pc = "decoded"
        => /\ ~decoded.raised
           /\ (header.kind = "missing" \/ header.parts = <<>>) => decoded.str = <<>>
           /\ (header.kind = "str" /\ ~header.malformed)
                  => decoded.str =
                         Strip(Flatten([k \in 1..Len(header.parts) |->
                                           TextOf(header.parts[k])]),
                               WhitespaceChars)

\* a header of two encoded words has been decoded: the first declares a
\* charset Python does not know and its bytes are not UTF-8, the second is
\* decoded with the charset it declares
C25_Witness ==
    /\ pc = "decoded"
    /\ ~decoded.raised
    /\ header.kind = "str"
    /\ ~header.malformed
    /\ Len(header.parts) = 2
    /\ header.parts[1].charset = "x-unknown"
    /\ "utf-8" \notin header.parts[1].valid
    /\ header.parts[2].charset = "gbk"
    /\ decoded.str = <<"b", "gbk", "b", "gbk">>

-----------------------------------------------------------------------------
(* The methods of one downloader called in any order: connect, the download
   methods, disconnect *)

\* the states of imaplib in which it sends SELECT; in the others select()
\* raises before anything is sent
SelectStates == {"AUTH", "SELECTED"}

\* the commands of a download call, in the order it sends them
DownloadCommands == <<"select", "search", "fetch">>

\* a command as sent: on which session, and what connect() had last returned
Command(name) == [command |-> name, session |-> mail.session, connected |-> connected]

\* the first n commands of a download call
CommandsSent(n) == [k \in 1..n |-> Command(DownloadCommands[k])]

\* IMAP4_SSL(...) and login(...) succeed: self.mail is a new session
ConnectOK ==
    /\ mail' = Mail("AUTH", Len(sessions) + 1)
    /\ sessions' = Append(sessions, [logouts |-> 0])
    /\ connected' = "True"
    /\ calls' = Append(calls, "connect")

\* IMAP4_SSL(...) raises: self.mail is not assigned
ConnectSocketFailed ==
    /\ connected' = "False"
    /\ calls' = Append(calls, "connect")
    /\ UNCHANGED <<mail, sessions>>

\* login(...) raises: self.mail is the new object, not authenticated
ConnectLoginFailed ==
    /\ mail' = Mail("NONAUTH", 0)
    /\ connected' = "False"
    /\ calls' = Append(calls, "connect")
    /\ UNCHANGED sessions

\* self.mail is None: the download method prints and returns
DownloadNotConnected ==
    /\ mail = NoMail
    /\ calls' = Append(calls, "download")
    /\ UNCHANGED <<mail, sent, dir>>

\* self.mail is an object imaplib sends nothing for: the folder is made, then
\* select() raises and the handler of the method returns []
DownloadRefusedByTheClient ==
    /\ mail # NoMail
    /\ mail.state \notin SelectStates
    /\ dir' = TRUE
    /\ calls' = Append(calls, "download")
    /\ UNCHANGED <<mail, sent>>

\* the download method on a session imaplib sends for: the folder is made,
\* then SELECT is sent, SEARCH if the folder was selected, FETCH if a message
\* was found
DownloadSends(n) ==
    /\ mail # NoMail
    /\ mail.state \in SelectStates
    /\ dir' = TRUE
    /\ sent' = sent \o CommandsSent(n)
    /\ mail' = [mail EXCEPT !.state = IF n = 1 THEN "AUTH" ELSE "SELECTED"]
    /\ calls' = Append(calls, "download")

\* disconnect(): logout() on self.mail if there is one
Logout ==
    /\ mail' = IF mail = NoMail THEN mail ELSE [mail EXCEPT !.state = "LOGOUT"]
    /\ sessions' = IF mail.session = 0
                   THEN sessions
                   ELSE [sessions EXCEPT ![mail.session].logouts = @ + 1]

Disconnect ==
    /\ Logout
    /\ calls' = Append(calls, "disconnect")

ApiUnchanged ==
    UNCHANGED <<ctl, hist, mailbox, files, search_range, file_types,
                raw_filename, safe_filename, mime_part, captured, race_vars,
                decode_vars, flow>>

InitApi ==
    /\ NoCall
    /\ NoRace
    /\ NoDecode
    /\ NewDownloader
    /\ flow = "none"
    /\ files = NoFiles
    /\ dir \in BOOLEAN
    /\ file_types \in FileTypeLists
    /\ raw_filename = <<>>
    /\ safe_filename = <<>>
    /\ mime_part = Part("multipart", "none", NoFilename, "")
    /\ captured = FALSE
    /\ pc = "idle"

MoreCalls == Len(calls) < MaxCalls

ApiConnectOK ==
    /\ MoreCalls
    /\ ConnectOK
    /\ UNCHANGED <<sent, dir>>
    /\ ApiUnchanged

ApiConnectSocketFailed ==
    /\ MoreCalls
    /\ ConnectSocketFailed
    /\ UNCHANGED <<sent, dir>>
    /\ ApiUnchanged

ApiConnectLoginFailed ==
    /\ MoreCalls
    /\ ConnectLoginFailed
    /\ UNCHANGED <<sent, dir>>
    /\ ApiUnchanged

ApiDownloadNotConnected ==
    /\ MoreCalls
    /\ DownloadNotConnected
    /\ UNCHANGED <<connected, sessions>>
    /\ ApiUnchanged

ApiDownloadRefusedByTheClient ==
    /\ MoreCalls
    /\ DownloadRefusedByTheClient
    /\ UNCHANGED <<connected, sessions>>
    /\ ApiUnchanged

ApiDownloadSends ==
    /\ MoreCalls
    /\ \E n \in 1..Len(DownloadCommands) : DownloadSends(n)
    /\ UNCHANGED <<connected, sessions>>
    /\ ApiUnchanged

ApiDisconnect ==
    /\ MoreCalls
    /\ Disconnect
    /\ UNCHANGED <<connected, sent, dir>>
    /\ ApiUnchanged

NextApi ==
    \/ ApiConnectOK
    \/ ApiConnectSocketFailed
    \/ ApiConnectLoginFailed
    \/ ApiDownloadNotConnected
    \/ ApiDownloadRefusedByTheClient
    \/ ApiDownloadSends
    \/ ApiDisconnect

SpecApi == InitApi /\ [][NextApi]_vars

\* the step is a call of a download method
DownloadCalled == calls' = Append(calls, "download")

\* C28: a download method called when the last connect() has not returned
\* True sends no command to the server and does not create the download
\* folder.
C28_NoWorkAfterFailedConnect ==
    [][(DownloadCalled /\ connected # "True") => (sent' = sent /\ dir' = dir)]_vars

\* the two ways the code leaves C28: the folder made after a failed login, and
\* commands sent on the earlier session after a failed reconnection
C28_FolderMadeAfterFailedLogin ==
    /\ calls = <<"connect", "download">>
    /\ connected = "False"
    /\ mail = Mail("NONAUTH", 0)
    /\ sent = <<>>
    /\ dir

C28_CommandsAfterFailedReconnect ==
    /\ calls = <<"connect", "connect", "download">>
    /\ connected = "False"
    /\ Len(sent) = 3
    /\ \A k \in 1..3 : sent[k].connected = "False" /\ sent[k].session = 1

-----------------------------------------------------------------------------
(* download_attachments_from_email of main.py, with its check_email_access:
   two downloaders one after the other, each disconnected by a finally *)

\* the flow has returned, and what
Returned == flow \in {"True", "False"}

MainUnchanged ==
    UNCHANGED <<ctl, hist, mailbox, files, search_range, file_types,
                raw_filename, safe_filename, mime_part, captured, race_vars,
                decode_vars>>

InitMain ==
    /\ NotStarted
    /\ mailbox = <<>>
    /\ search_range \in SearchRanges
    /\ NoRace
    /\ NoDecode
    /\ NewDownloader
    /\ flow = "check_connect"
    /\ files = NoFiles
    /\ dir \in BOOLEAN
    /\ file_types \in FileTypeLists
    /\ raw_filename = <<>>
    /\ safe_filename = <<>>
    /\ mime_part = Part("multipart", "none", NoFilename, "")
    /\ captured = FALSE
    /\ pc = "idle"

\* the address or the password is missing: no downloader is made
CheckNoCredentials ==
    /\ flow = "check_connect"
    /\ flow' = "False"
    /\ UNCHANGED <<mail, connected, sessions, sent, calls, dir>>
    /\ MainUnchanged

CheckConnectOK ==
    /\ flow = "check_connect"
    /\ ConnectOK
    /\ flow' = "check_list"
    /\ UNCHANGED <<sent, dir>>
    /\ MainUnchanged

\* connect() returned False: the check returns before its try
CheckSocketFailed ==
    /\ flow = "check_connect"
    /\ ConnectSocketFailed
    /\ flow' = "False"
    /\ UNCHANGED <<sent, dir>>
    /\ MainUnchanged

CheckLoginFailed ==
    /\ flow = "check_connect"
    /\ ConnectLoginFailed
    /\ flow' = "False"
    /\ UNCHANGED <<sent, dir>>
    /\ MainUnchanged

CheckFolders ==
    /\ flow = "check_list"
    /\ calls' = Append(calls, "list_folders")
    /\ flow' = "check_select"
    /\ UNCHANGED <<mail, connected, sessions, sent, dir>>
    /\ MainUnchanged

\* list_folders() returned []: return False, through the finally
CheckNoFolders ==
    /\ flow = "check_list"
    /\ Logout
    /\ calls' = calls \o <<"list_folders", "disconnect">>
    /\ flow' = "False"
    /\ UNCHANGED <<connected, sent, dir>>
    /\ MainUnchanged

CheckSelectOK ==
    /\ flow = "check_select"
    /\ sent' = Append(sent, Command("select"))
    /\ mail' = [mail EXCEPT !.state = "SELECTED"]
    /\ flow' = "check_search"
    /\ UNCHANGED <<connected, sessions, calls, dir>>
    /\ MainUnchanged

\* select answered other than OK, or raised: return False, through the finally
CheckSelectFailed ==
    /\ flow = "check_select"
    /\ sent' = Append(sent, Command("select"))
    /\ Logout
    /\ calls' = Append(calls, "disconnect")
    /\ flow' = "False"
    /\ UNCHANGED <<connected, dir>>
    /\ MainUnchanged

\* the search answered OK: return True, through the finally
CheckSearchOK ==
    /\ flow = "check_search"
    /\ sent' = Append(sent, Command("search"))
    /\ Logout
    /\ calls' = Append(calls, "disconnect")
    /\ flow' = "checked"
    /\ UNCHANGED <<connected, dir>>
    /\ MainUnchanged

CheckSearchFailed ==
    /\ flow = "check_search"
    /\ sent' = Append(sent, Command("search"))
    /\ Logout
    /\ calls' = Append(calls, "disconnect")
    /\ flow' = "False"
    /\ UNCHANGED <<connected, dir>>
    /\ MainUnchanged

\* the check returned True: the flow makes its own downloader
MainNewDownloader ==
    /\ flow = "checked"
    /\ mail' = NoMail
    /\ connected' = "never"
    /\ flow' = "connect"
    /\ UNCHANGED <<sessions, sent, calls, dir>>
    /\ MainUnchanged

MainConnectOK ==
    /\ flow = "connect"
    /\ ConnectOK
    /\ flow' = "list"
    /\ UNCHANGED <<sent, dir>>
    /\ MainUnchanged

MainSocketFailed ==
    /\ flow = "connect"
    /\ ConnectSocketFailed
    /\ flow' = "False"
    /\ UNCHANGED <<sent, dir>>
    /\ MainUnchanged

MainLoginFailed ==
    /\ flow = "connect"
    /\ ConnectLoginFailed
    /\ flow' = "False"
    /\ UNCHANGED <<sent, dir>>
    /\ MainUnchanged

\* the folder is among the folders listed
MainFolderFound ==
    /\ flow = "list"
    /\ calls' = Append(calls, "list_folders")
    /\ flow' = "download"
    /\ UNCHANGED <<mail, connected, sessions, sent, dir>>
    /\ MainUnchanged

\* the folder is not listed and the user answers y
MainUseInbox ==
    /\ flow = "list"
    /\ calls' = calls \o <<"list_folders", "input">>
    /\ flow' = "download"
    /\ UNCHANGED <<mail, connected, sessions, sent, dir>>
    /\ MainUnchanged

\* MainInboxDeclined without the finally
MainInboxDeclinedWithoutFinally ==
    /\ flow = "list"
    /\ calls' = calls \o <<"list_folders", "input">>
    /\ flow' = "False"
    /\ UNCHANGED <<mail, connected, sessions, sent, dir>>
    /\ MainUnchanged

\* the folder is not listed and the user answers otherwise: return False,
\* through the finally
MainInboxDeclined ==
    /\ flow = "list"
    /\ Logout
    /\ calls' = calls \o <<"list_folders", "input", "disconnect">>
    /\ flow' = "False"
    /\ UNCHANGED <<connected, sent, dir>>
    /\ MainUnchanged

\* the download method is called and returns its list
MainDownload ==
    /\ flow = "download"
    /\ \E n \in 1..Len(DownloadCommands) : DownloadSends(n)
    /\ flow' = "downloaded"
    /\ UNCHANGED <<connected, sessions>>
    /\ MainUnchanged

\* the download method raises, from os.makedirs: return False, through the
\* handler and the finally
MainDownloadRaised ==
    /\ flow = "download"
    /\ ~dir
    /\ Logout
    /\ calls' = calls \o <<"download", "disconnect">>
    /\ flow' = "False"
    /\ UNCHANGED <<connected, sent, dir>>
    /\ MainUnchanged

\* return True for files, False for none, through the finally
MainReturn ==
    /\ flow = "downloaded"
    /\ Logout
    /\ calls' = Append(calls, "disconnect")
    /\ flow' \in {"True", "False"}
    /\ UNCHANGED <<connected, sent, dir>>
    /\ MainUnchanged

NextMain ==
    \/ CheckNoCredentials
    \/ CheckConnectOK
    \/ CheckSocketFailed
    \/ CheckLoginFailed
    \/ CheckFolders
    \/ CheckNoFolders
    \/ CheckSelectOK
    \/ CheckSelectFailed
    \/ CheckSearchOK
    \/ CheckSearchFailed
    \/ MainNewDownloader
    \/ MainConnectOK
    \/ MainSocketFailed
    \/ MainLoginFailed
    \/ MainFolderFound
    \/ MainUseInbox
    \/ MainInboxDeclined
    \/ MainDownload
    \/ MainDownloadRaised
    \/ MainReturn

SpecMain == InitMain /\ [][NextMain]_vars

\* the sessions logged in and not logged out
OpenSessions == {k \in 1..Len(sessions) : sessions[k].logouts = 0}

\* C29: in the download flow of main.py at most one session is open at any
\* time, no session is logged out twice, and when the flow has returned every
\* session a successful connect() opened has been logged out exactly once.
C29_SessionsLoggedOutOnce ==
    /\ Cardinality(OpenSessions) <= 1
    /\ \A k \in 1..Len(sessions) : sessions[k].logouts <= 1
    /\ Returned => \A k \in 1..Len(sessions) : sessions[k].logouts = 1

\* the flow has returned False from the declined folder, both sessions closed
C29_Witness ==
    /\ flow = "False"
    /\ Len(sessions) = 2
    /\ Len(calls) > 2
    /\ SubSeq(calls, Len(calls) - 1, Len(calls)) = <<"input", "disconnect">>
    /\ \A k \in 1..2 : sessions[k].logouts = 1

====
